---------------------------- MODULE Spec2Model ----------------------------
(***************************************************************************)
(* A model of the Dash callback update_graphs of src/src/app.py: the       *)
(* table loaded once at import (solar_data), the three input properties    *)
(* of the layout, the invocation's local variables (filtered_data and the  *)
(* three figures), and the figures the three dcc.Graph components show.    *)
(*                                                                         *)
(* The Date column is read by pandas as strings and compared with the      *)
(* picker's strings; the model's dates 1..MaxDate stand for date strings   *)
(* of one format, ordered as Python orders those strings.  Cell values are *)
(* numbers without missing entries.  A correlation coefficient             *)
(* cov/sqrt(vx*vy) is kept exactly, as its sign and the reduced fraction   *)
(* cov^2/(vx*vy); pandas' NaN is the record NaN.                           *)
(***************************************************************************)
EXTENDS Integers, Sequences, FiniteSets, TLC

\* ------------------------------------------------------------- bounds
MaxRows == 2
MaxDate == 2

\* ------------------------------------------------------------- the table
Sessions == {"s1", "s2"}

Instruments == <<"A", "B">>

Unknown == "X"

Columns == {"Date", "anomaly_score"} \cup {Instruments[i] : i \in 1..Len(Instruments)}

Dates == 1..MaxDate

\* Two cell values: a column is constant or varies.
Vals == {0, 1}

Row == [Date : Dates, A : Vals, B : Vals, anomaly_score : Vals]

Tables == UNION {[1..n -> Row] : n \in 0..MaxRows}

CtrlTables ==
  { << [Date |-> 1, A |-> 0, B |-> 1, anomaly_score |-> 1],
       [Date |-> 2, A |-> 1, B |-> 1, anomaly_score |-> 0] >>,
    << [Date |-> 2, A |-> 1, B |-> 0, anomaly_score |-> 0],
       [Date |-> 1, A |-> 0, B |-> 1, anomaly_score |-> 1] >> }

Names == {Instruments[i] : i \in 1..Len(Instruments)} \cup {Unknown}

IsInjective(q) == \A i, j \in 1..Len(q) : q[i] = q[j] => i = j

Selections == {q \in UNION {[1..n -> Names] : n \in 0..Cardinality(Names)} : IsInjective(q)}

ArgSet == [selected_instruments : Selections, start_date : Dates, end_date : Dates]

VARIABLES solar_data, inputs, trigger, pc, args, filtered_data,
          time_series_fig, correlation_fig, anomaly_score_fig, graphs, outcome

vars == <<solar_data, inputs, trigger, pc, args, filtered_data,
          time_series_fig, correlation_fig, anomaly_score_fig, graphs, outcome>>

\* ------------------------------------------------------------- helpers
RECURSIVE SumSeq(_)
SumSeq(q) == IF q = <<>> THEN 0 ELSE Head(q) + SumSeq(Tail(q))

RECURSIVE GCD(_, _)
GCD(a, b) == IF b = 0 THEN a ELSE GCD(b, a % b)

Sign(x) == IF x > 0 THEN 1 ELSE IF x < 0 THEN -1 ELSE 0

MinDate(t) == CHOOSE d \in {t[i].Date : i \in 1..Len(t)} : \A i \in 1..Len(t) : d <= t[i].Date

MaxDateOf(t) == CHOOSE d \in {t[i].Date : i \in 1..Len(t)} : \A i \in 1..Len(t) : d >= t[i].Date

\* ------------------------------------------------------------- line 63
InRangeStrict(d, start_date, end_date) == d > start_date /\ d < end_date

InRangeEitherOrder(d, start_date, end_date) ==
  \/ d >= start_date /\ d <= end_date
  \/ d >= end_date /\ d <= start_date

InRange(d, start_date, end_date) == d >= start_date /\ d <= end_date

IndexedRow(t, i) ==
  [index |-> i - 1, Date |-> t[i].Date, A |-> t[i].A, B |-> t[i].B,
   anomaly_score |-> t[i].anomaly_score]

RECURSIVE BoolIndex(_, _, _)
BoolIndex(t, mask, i) ==
  IF i > Len(t) THEN <<>>
  ELSE (IF mask[i] THEN <<IndexedRow(t, i)>> ELSE <<>>) \o BoolIndex(t, mask, i + 1)

FilterRows(t, start_date, end_date) ==
  LET mask == [i \in 1..Len(t) |-> InRange(t[i].Date, start_date, end_date)]
  IN  BoolIndex(t, mask, 1)

ColumnOf(fd, c) == [k \in 1..Len(fd) |-> fd[k][c]]

\* ------------------------------------------------------------- lines 66-76
MissingNone(sel) == {}

Missing(sel) == {i \in 1..Len(sel) : sel[i] \notin Columns}

Present(sel) == SelectSeq(sel, LAMBDA c : c \in Columns)

Scatter(fd, instrument) ==
  [name |-> instrument, x |-> ColumnOf(fd, "Date"), y |-> ColumnOf(fd, instrument)]

TimeSeriesFigAlphabetical(fd, sel) ==
  LET p == Present(sel)
      q == SortSeq(p, LAMBDA a, b : \E i, j \in 1..Len(Instruments) :
                                     Instruments[i] = a /\ Instruments[j] = b /\ i < j)
  IN  [traces |-> [i \in 1..Len(q) |-> Scatter(fd, q[i])]]

TimeSeriesFig(fd, sel) ==
  LET p == Present(sel)
  IN  [traces |-> [i \in 1..Len(p) |-> Scatter(fd, p[i])]]

\* ------------------------------------------------------------- lines 79-87
NaN == [sgn |-> 0, num |-> 0, den |-> 0]

Covariance(fd, a, b) ==
  LET n == Len(fd)
      X == ColumnOf(fd, a)
      Y == ColumnOf(fd, b)
  IN  n * SumSeq([k \in 1..n |-> X[k] * Y[k]]) - SumSeq(X) * SumSeq(Y)

PearsonZeroForDegenerate(fd, a, b) ==
  LET cov == Covariance(fd, a, b)
      vv  == Covariance(fd, a, a) * Covariance(fd, b, b)
      g   == GCD(cov * cov, vv)
  IN  IF Len(fd) < 2 \/ vv = 0 THEN [sgn |-> 0, num |-> 0, den |-> 1]
      ELSE [sgn |-> Sign(cov), num |-> (cov * cov) \div g, den |-> vv \div g]

Pearson(fd, a, b) ==
  LET cov == Covariance(fd, a, b)
      vv  == Covariance(fd, a, a) * Covariance(fd, b, b)
      g   == GCD(cov * cov, vv)
  IN  IF Len(fd) < 2 \/ vv = 0 THEN NaN
      ELSE [sgn |-> Sign(cov), num |-> (cov * cov) \div g, den |-> vv \div g]

Corr(fd, cols) ==
  [i \in 1..Len(cols) |-> [j \in 1..Len(cols) |-> Pearson(fd, cols[i], cols[j])]]

CorrelationFigAllWhenEmpty(fd, sel) ==
  LET p == IF sel = <<>> THEN Instruments ELSE Present(sel)
  IN  [z |-> Corr(fd, p), x |-> p, y |-> p]

CorrelationFigColumnOrder(fd, sel) ==
  LET p == Present(sel)
      q == SelectSeq(Instruments, LAMBDA c : \E i \in 1..Len(p) : p[i] = c)
  IN  [z |-> Corr(fd, q), x |-> p, y |-> p]

CorrelationFig(fd, sel) ==
  LET p == Present(sel)
  IN  [z |-> Corr(fd, p), x |-> p, y |-> p]

\* ------------------------------------------------------------- lines 90-95
AnomalyFig(fd) == [x |-> ColumnOf(fd, "Date"), y |-> ColumnOf(fd, "anomaly_score")]

\* ------------------------------------------------------------- figures
NoTimeSeries == [traces |-> <<>>]

NoCorrelation == [z |-> <<>>, x |-> <<>>, y |-> <<>>]

NoAnomaly == [x |-> <<>>, y |-> <<>>]

NoGraphs == [time_series |-> NoTimeSeries, correlation |-> NoCorrelation, anomaly |-> NoAnomaly]

NoArgs == [selected_instruments |-> <<>>, start_date |-> 1, end_date |-> 1]

\* ------------------------------------------------------------- update_graphs
Frame(s) == /\ filtered_data' = [filtered_data EXCEPT ![s] = <<>>]
            /\ time_series_fig' = [time_series_fig EXCEPT ![s] = NoTimeSeries]
            /\ correlation_fig' = [correlation_fig EXCEPT ![s] = NoCorrelation]
            /\ anomaly_score_fig' = [anomaly_score_fig EXCEPT ![s] = NoAnomaly]

FilterDataShared(s) ==
  /\ pc[s] = "filter"
  /\ filtered_data' = [t \in Sessions |->
        FilterRows(solar_data, args[s].start_date, args[s].end_date)]
  /\ pc' = [pc EXCEPT ![s] = "time_series"]
  /\ UNCHANGED <<solar_data, inputs, trigger, args, time_series_fig, correlation_fig,
                 anomaly_score_fig, graphs, outcome>>

FilterData(s) ==
  /\ pc[s] = "filter"
  /\ filtered_data' = [filtered_data EXCEPT ![s] =
        FilterRows(solar_data, args[s].start_date, args[s].end_date)]
  /\ pc' = [pc EXCEPT ![s] = "time_series"]
  /\ UNCHANGED <<solar_data, inputs, trigger, args, time_series_fig, correlation_fig,
                 anomaly_score_fig, graphs, outcome>>

TimeSeriesChartDeliversEarly(s) ==
  /\ pc[s] = "time_series"
  /\ \/ /\ Missing(args[s].selected_instruments) # {}
        /\ pc' = [pc EXCEPT ![s] = "idle"]
        /\ outcome' = [outcome EXCEPT ![s] = "KeyError"]
        /\ UNCHANGED <<time_series_fig, graphs>>
     \/ /\ Missing(args[s].selected_instruments) = {}
        /\ time_series_fig' = [time_series_fig EXCEPT ![s] =
              TimeSeriesFig(filtered_data[s], args[s].selected_instruments)]
        /\ graphs' = [graphs EXCEPT ![s].time_series =
              TimeSeriesFig(filtered_data[s], args[s].selected_instruments)]
        /\ pc' = [pc EXCEPT ![s] = "correlation"]
        /\ UNCHANGED outcome
  /\ UNCHANGED <<solar_data, inputs, trigger, args, filtered_data, correlation_fig,
                 anomaly_score_fig>>

TimeSeriesChart(s) ==
  /\ pc[s] = "time_series"
  /\ \/ /\ Missing(args[s].selected_instruments) # {}
        /\ pc' = [pc EXCEPT ![s] = "idle"]
        /\ outcome' = [outcome EXCEPT ![s] = "KeyError"]
        /\ UNCHANGED time_series_fig
     \/ /\ Missing(args[s].selected_instruments) = {}
        /\ time_series_fig' = [time_series_fig EXCEPT ![s] =
              TimeSeriesFig(filtered_data[s], args[s].selected_instruments)]
        /\ pc' = [pc EXCEPT ![s] = "correlation"]
        /\ UNCHANGED outcome
  /\ UNCHANGED <<solar_data, inputs, trigger, args, filtered_data, correlation_fig,
                 anomaly_score_fig, graphs>>

CorrelationHeatmap(s) ==
  /\ pc[s] = "correlation"
  /\ correlation_fig' = [correlation_fig EXCEPT ![s] =
        CorrelationFig(filtered_data[s], args[s].selected_instruments)]
  /\ pc' = [pc EXCEPT ![s] = "anomaly"]
  /\ UNCHANGED <<solar_data, inputs, trigger, args, filtered_data, time_series_fig,
                 anomaly_score_fig, graphs, outcome>>

AnomalyScoreChartOfFirstInstrument(s) ==
  /\ pc[s] = "anomaly"
  /\ anomaly_score_fig' = [anomaly_score_fig EXCEPT ![s] =
        LET p == Present(args[s].selected_instruments)
        IN  [x |-> ColumnOf(filtered_data[s], "Date"),
             y |-> ColumnOf(filtered_data[s],
                            IF p = <<>> THEN "anomaly_score" ELSE p[1])]]
  /\ pc' = [pc EXCEPT ![s] = "return"]
  /\ UNCHANGED <<solar_data, inputs, trigger, args, filtered_data, time_series_fig,
                 correlation_fig, graphs, outcome>>

AnomalyScoreChart(s) ==
  /\ pc[s] = "anomaly"
  /\ anomaly_score_fig' = [anomaly_score_fig EXCEPT ![s] = AnomalyFig(filtered_data[s])]
  /\ pc' = [pc EXCEPT ![s] = "return"]
  /\ UNCHANGED <<solar_data, inputs, trigger, args, filtered_data, time_series_fig,
                 correlation_fig, graphs, outcome>>

Return(s) ==
  /\ pc[s] = "return"
  /\ graphs' = [graphs EXCEPT ![s] =
        [time_series |-> time_series_fig[s], correlation |-> correlation_fig[s],
         anomaly |-> anomaly_score_fig[s]]]
  /\ pc' = [pc EXCEPT ![s] = "idle"]
  /\ outcome' = [outcome EXCEPT ![s] = "ok"]
  /\ UNCHANGED <<solar_data, inputs, trigger, args, filtered_data, time_series_fig,
                 correlation_fig, anomaly_score_fig>>

update_graphs(s) ==
  \/ FilterData(s)
  \/ TimeSeriesChart(s)
  \/ CorrelationHeatmap(s)
  \/ AnomalyScoreChart(s)
  \/ Return(s)

\* The figures one invocation returns when it runs alone.
Figures(t, a) ==
  LET fd == FilterRows(t, a.start_date, a.end_date)
  IN  [time_series |-> TimeSeriesFig(fd, a.selected_instruments),
       correlation |-> CorrelationFig(fd, a.selected_instruments),
       anomaly |-> AnomalyFig(fd)]

\* ------------------------------------------------------------- lines 54-61
InputChange(s) ==
  /\ pc[s] = "idle"
  /\ \/ \E v \in Selections :
          /\ v # inputs[s].selected_instruments
          /\ inputs' = [inputs EXCEPT ![s].selected_instruments = v]
          /\ trigger' = [trigger EXCEPT ![s] = {"value"}]
     \/ \E d \in Dates :
          /\ d # inputs[s].start_date
          /\ inputs' = [inputs EXCEPT ![s].start_date = d]
          /\ trigger' = [trigger EXCEPT ![s] = {"start_date"}]
     \/ \E d \in Dates :
          /\ d # inputs[s].end_date
          /\ inputs' = [inputs EXCEPT ![s].end_date = d]
          /\ trigger' = [trigger EXCEPT ![s] = {"end_date"}]
  /\ args' = [args EXCEPT ![s] = inputs'[s]]
  /\ pc' = [pc EXCEPT ![s] = "filter"]
  /\ Frame(s)
  /\ UNCHANGED <<solar_data, graphs, outcome>>

\* ------------------------------------------------------------- specifications
AllInputs == {"value", "start_date", "end_date"}

Locals ==
  /\ filtered_data = [s \in Sessions |-> <<>>]
  /\ time_series_fig = [s \in Sessions |-> NoTimeSeries]
  /\ correlation_fig = [s \in Sessions |-> NoCorrelation]
  /\ anomaly_score_fig = [s \in Sessions |-> NoAnomaly]
  /\ graphs = [s \in Sessions |-> NoGraphs]
  /\ outcome = [s \in Sessions |-> "none"]

\* One invocation, of any table with any arguments.
Init ==
  /\ solar_data \in Tables
  /\ \E a \in ArgSet : inputs = [s \in Sessions |-> IF s = "s1" THEN a ELSE NoArgs]
  /\ args = inputs
  /\ trigger = [s \in Sessions |-> IF s = "s1" THEN AllInputs ELSE {}]
  /\ pc = [s \in Sessions |-> IF s = "s1" THEN "filter" ELSE "idle"]
  /\ Locals

Next == \E s \in Sessions : update_graphs(s)

Spec == Init /\ [][Next]_vars

\* Two sessions, each with one invocation in flight, interleaved step by step.
InitSessions ==
  /\ solar_data \in CtrlTables
  /\ inputs \in [Sessions -> ArgSet]
  /\ args = inputs
  /\ trigger = [s \in Sessions |-> AllInputs]
  /\ pc = [s \in Sessions |-> "filter"]
  /\ Locals

SpecSessions == InitSessions /\ [][Next]_vars

\* One session: the page load's invocation with the layout's defaults
\* (lines 24, 33, 34), then input changes, each followed by its invocation.
DefaultInputs(t) ==
  [selected_instruments |-> <<Instruments[1]>>, start_date |-> MinDate(t),
   end_date |-> MaxDateOf(t)]

InitCtrl ==
  /\ solar_data \in CtrlTables
  /\ inputs = [s \in Sessions |-> IF s = "s1" THEN DefaultInputs(solar_data) ELSE NoArgs]
  /\ args = inputs
  /\ trigger = [s \in Sessions |-> IF s = "s1" THEN AllInputs ELSE {}]
  /\ pc = [s \in Sessions |-> IF s = "s1" THEN "filter" ELSE "idle"]
  /\ Locals

NextCtrl == InputChange("s1") \/ update_graphs("s1")

SpecCtrl == InitCtrl /\ [][NextCtrl]_vars

FairSpecCtrl == SpecCtrl /\ WF_vars(update_graphs("s1"))

\* ------------------------------------------------------------- properties
Invoked(s) == trigger[s] # {}

Finished(s) == Invoked(s) /\ pc[s] = "idle"

\* The positions of the table's rows whose Date lies in the invocation's range.
RowsInRange(s) ==
  {i \in 1..Len(solar_data) :
     args[s].start_date <= solar_data[i].Date /\ solar_data[i].Date <= args[s].end_date}

RECURSIVE SetSum(_, _)
SetSum(f, S) == IF S = {} THEN 0
                ELSE LET i == CHOOSE j \in S : TRUE IN f[i] + SetSum(f, S \ {i})

\* n * sum(a*b) - sum(a) * sum(b) over the rows at positions R of the table.
CoMoment(R, a, b) ==
  Cardinality(R) * SetSum([i \in R |-> solar_data[i][a] * solar_data[i][b]], R)
    - SetSum([i \in R |-> solar_data[i][a]], R) * SetSum([i \in R |-> solar_data[i][b]], R)

ConstantOver(R, a) == \A i, j \in R : solar_data[i][a] = solar_data[j][a]

Degenerate(R, a) == Cardinality(R) < 2 \/ ConstantOver(R, a)

\* c is Pearson's coefficient of columns a and b over the rows at R:
\* c = cov / sqrt(va * vb), stated on the sign and the square.
IsCoefficient(c, R, a, b) ==
  /\ c.den > 0
  /\ c.sgn = Sign(CoMoment(R, a, b))
  /\ c.num * (CoMoment(R, a, a) * CoMoment(R, b, b))
       = c.den * (CoMoment(R, a, b) * CoMoment(R, a, b))

\* C1: once line 63 has run, filtered_data holds exactly the table's rows whose
\* Date d has start_date <= d <= end_date, both bounds included, each row as it
\* is in the table and in the table's relative order.
C1_FilterInclusiveInOrder ==
  \A s \in Sessions : (Invoked(s) /\ pc[s] # "filter") =>
    LET fd == filtered_data[s]
    IN  /\ {fd[k].index + 1 : k \in 1..Len(fd)} = RowsInRange(s)
        /\ \A k, l \in 1..Len(fd) : k < l => fd[k].index < fd[l].index
        /\ \A k \in 1..Len(fd) :
             \A c \in Columns : fd[k][c] = solar_data[fd[k].index + 1][c]

C1_Witness ==
  /\ pc["s1"] = "time_series"
  /\ args["s1"].start_date < args["s1"].end_date
  /\ Len(filtered_data["s1"]) = 2
  /\ filtered_data["s1"][1].Date = args["s1"].end_date
  /\ filtered_data["s1"][2].Date = args["s1"].start_date

\* C2 (as stated): with start_date later than end_date, for any selection of
\* the table's instruments, the invocation raises nothing, filters to zero
\* rows, and every payload has an empty x-axis and zero series.
C2_StartAfterEndAllEmpty ==
  \A s \in Sessions :
    (/\ Finished(s) /\ args[s].start_date > args[s].end_date
     /\ \A i \in 1..Len(args[s].selected_instruments) :
          args[s].selected_instruments[i] \in Columns) =>
      /\ outcome[s] = "ok"
      /\ filtered_data[s] = <<>>
      /\ graphs[s].time_series.traces = <<>>
      /\ graphs[s].correlation.x = <<>>
      /\ graphs[s].anomaly.x = <<>>

\* C2 (amended): with start_date later than end_date the filtered view has zero
\* rows; when every selected name is a column the invocation raises nothing,
\* the time-series payload keeps one series per selected instrument, each with
\* no points, the anomaly payload has no points, and the correlation grid keeps
\* the selection as its labels with every cell undefined; with an unknown name
\* it raises KeyError and returns nothing.
C2_StartAfterEndNoPoints ==
  \A s \in Sessions :
    (Finished(s) /\ args[s].start_date > args[s].end_date) =>
      LET sel == args[s].selected_instruments
          g   == graphs[s]
      IN  /\ filtered_data[s] = <<>>
          /\ (\E i \in 1..Len(sel) : sel[i] \notin Columns) =>
               outcome[s] = "KeyError" /\ g = NoGraphs
          /\ (\A i \in 1..Len(sel) : sel[i] \in Columns) =>
               /\ outcome[s] = "ok"
               /\ Len(g.time_series.traces) = Len(sel)
               /\ \A i \in 1..Len(sel) :
                    /\ g.time_series.traces[i].name = sel[i]
                    /\ g.time_series.traces[i].x = <<>>
                    /\ g.time_series.traces[i].y = <<>>
               /\ g.anomaly.x = <<>> /\ g.anomaly.y = <<>>
               /\ g.correlation.x = sel /\ g.correlation.y = sel
               /\ Len(g.correlation.z) = Len(sel)
               /\ \A i, j \in 1..Len(sel) : g.correlation.z[i][j] = NaN

C2_Witness ==
  /\ Finished("s1") /\ outcome["s1"] = "ok"
  /\ args["s1"].start_date > args["s1"].end_date
  /\ Len(graphs["s1"].time_series.traces) = 2
  /\ \E i \in 1..Len(solar_data) :
       /\ solar_data[i].Date <= args["s1"].start_date
       /\ solar_data[i].Date >= args["s1"].end_date

\* C5 (as stated): with nothing selected the invocation raises nothing and
\* every payload is empty: no series, no grid labels, an empty x-axis.
C5_EmptySelectionAllEmpty ==
  \A s \in Sessions :
    (Finished(s) /\ args[s].selected_instruments = <<>>) =>
      /\ outcome[s] = "ok"
      /\ graphs[s].time_series.traces = <<>>
      /\ graphs[s].correlation = NoCorrelation
      /\ graphs[s].anomaly.x = <<>>

\* C5 (amended): with nothing selected the invocation raises nothing, the
\* time-series payload has zero series and the correlation grid zero labels and
\* cells, and the anomaly payload still plots every row of the date range.
C5_EmptySelectionKeepsAnomaly ==
  \A s \in Sessions :
    (Finished(s) /\ args[s].selected_instruments = <<>>) =>
      /\ outcome[s] = "ok"
      /\ graphs[s].time_series.traces = <<>>
      /\ graphs[s].correlation = NoCorrelation
      /\ Len(graphs[s].anomaly.x) = Cardinality(RowsInRange(s))
      /\ Len(graphs[s].anomaly.y) = Cardinality(RowsInRange(s))
      /\ \A k \in 1..Len(filtered_data[s]) :
           /\ graphs[s].anomaly.x[k] = filtered_data[s][k].Date
           /\ graphs[s].anomaly.y[k] = filtered_data[s][k].anomaly_score

C5_Witness ==
  /\ Finished("s1") /\ outcome["s1"] = "ok"
  /\ args["s1"].selected_instruments = <<>>
  /\ Len(graphs["s1"].anomaly.x) = 2

\* C6: when a selected name is not a column, the invocation ends in KeyError
\* whatever the date range, never gets past the time-series loop, and returns
\* no payload.
C6_UnknownColumnRaises ==
  \A s \in Sessions :
    LET sel == args[s].selected_instruments
    IN  (Invoked(s) /\ \E i \in 1..Len(sel) : sel[i] \notin Columns) =>
          /\ pc[s] \in {"filter", "time_series", "idle"}
          /\ pc[s] = "idle" => outcome[s] = "KeyError"
          /\ outcome[s] # "ok"
          /\ graphs[s] = NoGraphs

C6_Witness ==
  /\ Finished("s1") /\ outcome["s1"] = "KeyError"
  /\ args["s1"].selected_instruments = <<"A", Unknown>>
  /\ filtered_data["s1"] = <<>>
  /\ solar_data # <<>>

\* C8: the correlation payload's row and column labels are the selection in the
\* order given, the grid is square, cell (i,j) is the coefficient of the i-th
\* and j-th selected instruments over the rows of the date range (undefined
\* where pandas leaves it undefined), and cell (i,j) equals cell (j,i).
C8_CorrelationGridBySelection ==
  \A s \in Sessions : (Finished(s) /\ outcome[s] = "ok") =>
    LET sel == args[s].selected_instruments
        c   == graphs[s].correlation
        R   == RowsInRange(s)
    IN  /\ c.x = sel /\ c.y = sel
        /\ Len(c.z) = Len(sel)
        /\ \A i \in 1..Len(sel) : Len(c.z[i]) = Len(sel)
        /\ \A i, j \in 1..Len(sel) :
             /\ c.z[i][j] = c.z[j][i]
             /\ c.z[i][j] # NaN => IsCoefficient(c.z[i][j], R, sel[i], sel[j])
             /\ c.z[i][j] = NaN => Degenerate(R, sel[i]) \/ Degenerate(R, sel[j])

C8_Witness ==
  /\ Finished("s1") /\ outcome["s1"] = "ok"
  /\ args["s1"].selected_instruments = <<"B", "A">>
  /\ graphs["s1"].correlation.z[1][2] = [sgn |-> -1, num |-> 1, den |-> 1]
  /\ graphs["s1"].correlation.z[1][1] = [sgn |-> 1, num |-> 1, den |-> 1]

\* C9: when the date range keeps fewer than 2 rows, or a selected instrument is
\* constant over them, the invocation of a selection of the table's columns
\* does not fail: exactly the cells of an affected row or column are undefined,
\* every other cell is the pair's coefficient, and the time-series and anomaly
\* payloads are produced.
C9_DegenerateCellsUndefined ==
  \A s \in Sessions :
    LET sel == args[s].selected_instruments
        R   == RowsInRange(s)
        g   == graphs[s]
    IN  (/\ Finished(s)
         /\ \A i \in 1..Len(sel) : sel[i] \in Columns
         /\ \E i \in 1..Len(sel) : Degenerate(R, sel[i])) =>
          /\ outcome[s] = "ok"
          /\ \A i, j \in 1..Len(sel) :
               IF Degenerate(R, sel[i]) \/ Degenerate(R, sel[j])
               THEN g.correlation.z[i][j] = NaN
               ELSE IsCoefficient(g.correlation.z[i][j], R, sel[i], sel[j])
          /\ Len(g.time_series.traces) = Len(sel)
          /\ \A i \in 1..Len(sel) : Len(g.time_series.traces[i].y) = Cardinality(R)
          /\ Len(g.anomaly.y) = Cardinality(R)

C9_Witness ==
  /\ Finished("s1") /\ outcome["s1"] = "ok"
  /\ args["s1"].selected_instruments = <<"A", "B">>
  /\ Len(filtered_data["s1"]) = 2
  /\ graphs["s1"].correlation.z =
       << <<NaN, NaN>>, <<NaN, [sgn |-> 1, num |-> 1, den |-> 1]>> >>

\* C10: for a selection of the table's columns, the time-series payload has one
\* series per entry of the selection, in selection order and named after it;
\* each series is as long as the x-axis, whose k-th value is the Date of the
\* k-th filtered row, and its k-th value is the instrument's value in that row.
C10_OneSeriesPerInstrument ==
  \A s \in Sessions : (Finished(s) /\ outcome[s] = "ok") =>
    LET sel == args[s].selected_instruments
        tr  == graphs[s].time_series.traces
        fd  == filtered_data[s]
    IN  /\ Len(tr) = Len(sel)
        /\ \A i \in 1..Len(sel) :
             /\ tr[i].name = sel[i]
             /\ Len(tr[i].x) = Cardinality(RowsInRange(s))
             /\ Len(tr[i].y) = Len(tr[i].x)
             /\ \A k \in 1..Len(fd) :
                  tr[i].x[k] = fd[k].Date /\ tr[i].y[k] = fd[k][sel[i]]

C10_Witness ==
  /\ Finished("s1") /\ outcome["s1"] = "ok"
  /\ args["s1"].selected_instruments = <<"B", "A">>
  /\ Len(graphs["s1"].time_series.traces) = 2
  /\ graphs["s1"].time_series.traces[1].y = <<1, 0>>
  /\ graphs["s1"].time_series.traces[2].y = <<0, 0>>
  /\ graphs["s1"].time_series.traces[1].x = <<2, 1>>

\* C7: when the invocations of two sessions interleave, no step writes the
\* loaded table, a step of one session leaves the other's filtered view and
\* figures alone, and each invocation returns exactly the figures it returns
\* when it runs alone with its own arguments (or raises, as it does alone).
C7_SessionsShareNothing ==
  /\ [][solar_data' = solar_data]_vars
  /\ [][\A s, t \in Sessions :
          (s # t /\ pc'[s] # pc[s]) =>
            /\ filtered_data'[t] = filtered_data[t]
            /\ time_series_fig'[t] = time_series_fig[t]
            /\ correlation_fig'[t] = correlation_fig[t]
            /\ anomaly_score_fig'[t] = anomaly_score_fig[t]
            /\ graphs'[t] = graphs[t]]_vars
  /\ [](\A s \in Sessions : Finished(s) =>
          IF Missing(args[s].selected_instruments) = {}
          THEN outcome[s] = "ok" /\ graphs[s] = Figures(solar_data, args[s])
          ELSE outcome[s] = "KeyError" /\ graphs[s] = NoGraphs)

C7_Witness ==
  /\ Finished("s1") /\ Finished("s2")
  /\ outcome["s1"] = "ok" /\ outcome["s2"] = "ok"
  /\ graphs["s1"].anomaly # graphs["s2"].anomaly
  /\ graphs["s1"].time_series # graphs["s2"].time_series
  /\ graphs["s1"].correlation # graphs["s2"].correlation

\* C3 (as stated): a cycle started by a change of the selected instruments
\* alone does not recompute the anomaly-score chart.
C3_InstrumentChangeSkipsAnomaly ==
  [][trigger["s1"] = {"value"} => ~AnomalyScoreChart("s1")]_vars

\* C3 (amended): a change of the selected instruments alone runs update_graphs
\* again, which rebuilds the anomaly-score chart too; when that cycle returns
\* and the cycle before it had returned, the anomaly payload it delivers equals
\* the one it replaces.
C3_InstrumentChangeKeepsAnomalyValue ==
  [][(/\ trigger["s1"] = {"value"} /\ outcome["s1"] = "ok"
      /\ pc["s1"] = "return" /\ pc'["s1"] = "idle") =>
        /\ anomaly_score_fig["s1"] = AnomalyFig(filtered_data["s1"])
        /\ graphs'["s1"].anomaly = graphs["s1"].anomaly]_vars

C3_Witness ==
  /\ Finished("s1") /\ outcome["s1"] = "ok"
  /\ trigger["s1"] = {"value"}
  /\ Len(graphs["s1"].time_series.traces) = 2
  /\ Len(graphs["s1"].anomaly.x) = 2

\* C4: a cycle that fails ends in idle with the three delivered payloads as they
\* were; the delivered payloads change only when a cycle returns, and then all
\* three become the figures of that cycle's arguments; every cycle ends.
C4_FailureKeepsPayloads ==
  /\ [][(pc["s1"] \notin {"idle", "return"} /\ pc'["s1"] = "idle") =>
          (outcome'["s1"] = "KeyError" /\ graphs' = graphs)]_vars
  /\ [][graphs'["s1"] # graphs["s1"] =>
          /\ pc["s1"] = "return" /\ pc'["s1"] = "idle" /\ outcome'["s1"] = "ok"
          /\ graphs'["s1"] = Figures(solar_data, args["s1"])]_vars
  /\ [](pc["s1"] = "idle" =>
          (graphs["s1"] = NoGraphs \/ \E a \in ArgSet : graphs["s1"] = Figures(solar_data, a)))
  /\ (pc["s1"] # "idle") ~> (pc["s1"] = "idle")

C4_Witness ==
  /\ Finished("s1") /\ outcome["s1"] = "KeyError"
  /\ graphs["s1"] # NoGraphs
  /\ inputs["s1"].start_date # DefaultInputs(solar_data).start_date
  /\ graphs["s1"].anomaly # Figures(solar_data, inputs["s1"]).anomaly

=============================================================================
